---- MODULE Spec2Model ----
(***************************************************************************)
(* A model of the NX reader: File (src/src/file.rs), Audio                 *)
(* (src/src/audio.rs) and Bitmap (src/src/bitmap.rs).                      *)
(*                                                                         *)
(* A mapped file is a sequence of bytes (0..255).  Multi-byte integers are *)
(* little-endian byte sequences, so that u32/u64 values keep their width   *)
(* and are never silently widened.  A pointer is a byte offset from the    *)
(* start of the mapping, or Wild when it lies outside every mapping of the *)
(* model; a read through a pointer that leaves the mapping is undefined    *)
(* behaviour and is modelled as a choice among UB outcomes.                *)
(***************************************************************************)
EXTENDS Integers, Sequences, FiniteSets, TLC

VARIABLES disk, res, file, ret, audio, bitmap, thr

vars == <<disk, res, file, ret, audio, bitmap, thr>>

(***************************************************************************)
(* Bounds of the model.                                                    *)
(***************************************************************************)
MaxIndex == 2
MaxDim == 2
MaxOut == 17
MaxThreads == 2
AudioRecLen == 100

(***************************************************************************)
(* Program constants.                                                      *)
(***************************************************************************)
MAGIC == 877087568
AudioHeaderLen == 82
PixelBytes == 4
TableStride == 8
StrPrefix == 2
BitmapPrefix == 4

(***************************************************************************)
(* Little-endian integers.                                                 *)
(***************************************************************************)
RECURSIVE LE(_, _)
LE(n, k) == IF k = 0 THEN <<>> ELSE <<n % 256>> \o LE(n \div 256, k - 1)

\* Value of a little-endian byte sequence whose bytes above the third are 0.
Val(b) ==
    (IF Len(b) >= 1 THEN b[1] ELSE 0)
  + (IF Len(b) >= 2 THEN 256 * b[2] ELSE 0)
  + (IF Len(b) >= 3 THEN 65536 * b[3] ELSE 0)

IsSmall(b) == \A i \in 4..Len(b) : b[i] = 0

(***************************************************************************)
(* Pointers into the mapping.                                              *)
(***************************************************************************)
Wild == -1

\* `x as isize` followed by `data.offset(..)`: an offset of 2^24 or more (or
\* a negative one) leaves every mapping of the model.
PtrOf(b) == IF IsSmall(b) THEN Val(b) ELSE Wild

PtrAdd(p, n) == IF p = Wild THEN Wild ELSE p + n

InMap(m, p, n) == p # Wild /\ p >= 0 /\ p + n <= Len(m)

ReadBytes(m, p, n) == SubSeq(m, p + 1, p + n)

(***************************************************************************)
(* Header layout (repr::Header, packed): magic, then a u32 count and a u64 *)
(* offset for each of the node, string, bitmap and audio tables.           *)
(***************************************************************************)
HeaderSize == 52
OffMagic == 0
OffNodeCount == 4
OffNodeOffset == 8
OffStringCount == 16
OffStringOffset == 20
OffBitmapCount == 28
OffBitmapOffset == 32
OffAudioCount == 40
OffAudioOffset == 44
NodeSize == 20

(***************************************************************************)
(* The files the model opens.  The format has no writer in the program;    *)
(* the layouts below are the inputs: one well-formed file, the same file   *)
(* with table offsets that leave the mapping, each with several values of  *)
(* the magic field and cut at several lengths.                             *)
(***************************************************************************)
RECURSIVE Cat(_)
Cat(ss) == IF ss = <<>> THEN <<>> ELSE Head(ss) \o Cat(Tail(ss))

\* Offsets of consecutive records laid out from `base`, as u64 table entries.
RECURSIVE OffsetTable(_, _)
OffsetTable(recs, base) ==
    IF recs = <<>> THEN <<>>
    ELSE LE(base, TableStride) \o OffsetTable(Tail(recs), base + Len(Head(recs)))

StrRec(s) == LE(Len(s), StrPrefix) \o s
BitmapRec(p) == LE(Len(p), BitmapPrefix) \o p

Hello == <<104, 101, 108, 108, 111>>
Strings == <<Hello, <<>>>>

\* LZ4 blocks: 16 bytes (literals 1,2,3,4; a match of 7 at distance 4; five
\* closing literals), the empty block (one zero token), and no bytes at all.
Lz4Block16 == <<67, 1, 2, 3, 4, 4, 0, 80, 4, 1, 2, 3, 4>>
Pixels16 == <<1, 2, 3, 4, 1, 2, 3, 4, 1, 2, 3, 4, 1, 2, 3, 4>>
Lz4Empty == <<0>>
Payloads == <<Lz4Block16, Lz4Empty, <<>>>>

AudioBytes == [i \in 1..AudioRecLen |-> (i * 7) % 251]
Audios == <<AudioBytes>>

NodeBytes == [i \in 1..NodeSize |-> 200 + i]

StrRecs == [i \in 1..Len(Strings) |-> StrRec(Strings[i])]
BitmapRecs == [i \in 1..Len(Payloads) |-> BitmapRec(Payloads[i])]

NodeTableAt == HeaderSize
StringTableAt == NodeTableAt + NodeSize
BitmapTableAt == StringTableAt + TableStride * Len(Strings)
AudioTableAt == BitmapTableAt + TableStride * Len(Payloads)
StrRecsAt == AudioTableAt + TableStride * Len(Audios)
BitmapRecsAt == StrRecsAt + Len(Cat(StrRecs))
AudioRecsAt == BitmapRecsAt + Len(Cat(BitmapRecs))

HeaderBytes(magic, no, so, bo, ao) ==
    magic \o LE(1, 4) \o no
          \o LE(Len(Strings), 4) \o so
          \o LE(Len(Payloads), 4) \o bo
          \o LE(Len(Audios), 4) \o ao

Body ==
    NodeBytes
    \o OffsetTable(StrRecs, StrRecsAt)
    \o OffsetTable(BitmapRecs, BitmapRecsAt)
    \o OffsetTable(Audios, AudioRecsAt)
    \o Cat(StrRecs) \o Cat(BitmapRecs) \o Cat(Audios)

WellFormed(magic) ==
    HeaderBytes(magic, LE(NodeTableAt, 8), LE(StringTableAt, 8),
                LE(BitmapTableAt, 8), LE(AudioTableAt, 8)) \o Body

\* Table offsets that are not inside the file: past its end, and 2^64-1.
PastEnd == LE(60000, 8)
AllOnes == [i \in 1..8 |-> 255]
BadOffsets(magic) == HeaderBytes(magic, PastEnd, AllOnes, PastEnd, AllOnes) \o Body

GoodMagic == LE(MAGIC, 4)
Magics == {GoodMagic, <<81, 75, 71, 52>>, <<52, 71, 75, 80>>, <<0, 0, 0, 0>>}

FullLen == Len(WellFormed(GoodMagic))
Cuts == {0, 3, 4, HeaderSize - 1, HeaderSize, StrRecsAt + 4, FullLen}

Files ==
    { SubSeq(f, 1, c) : f \in { WellFormed(m) : m \in Magics }
                              \cup { BadOffsets(m) : m \in Magics },
                        c \in Cuts }

(***************************************************************************)
(* File::open                                                              *)
(***************************************************************************)
NoFile == [open |-> FALSE, map |-> <<>>, data |-> 0, header |-> 0,
           nodetable |-> 0, stringtable |-> 0, audiotable |-> 0,
           bitmaptable |-> 0]

\* The File over a mapping: the four table pointers, taken from the header
\* as they are.
resolve(d) ==
    [open |-> TRUE, map |-> d, data |-> 0, header |-> 0,
     nodetable |-> PtrOf(ReadBytes(d, OffNodeOffset, 8)),
     stringtable |-> PtrOf(ReadBytes(d, OffStringOffset, 8)),
     audiotable |-> PtrOf(ReadBytes(d, OffAudioOffset, 8)),
     bitmaptable |-> PtrOf(ReadBytes(d, OffBitmapOffset, 8))]

\* open with the magic looked at before the length.
open_magic_first(d, io) ==
    IF io THEN [res |-> "Io", file |-> NoFile]
    ELSE IF Len(d) >= 4 /\ ReadBytes(d, OffMagic, 4) # LE(MAGIC, 4)
         THEN [res |-> "InvalidMagic", file |-> NoFile]
    ELSE IF Len(d) < HeaderSize THEN [res |-> "TooShort", file |-> NoFile]
    ELSE [res |-> "Ok", file |-> resolve(d)]

\* open with the magic compared in the opposite byte order.
open_swapped_magic(d, io) ==
    IF io THEN [res |-> "Io", file |-> NoFile]
    ELSE IF Len(d) < HeaderSize THEN [res |-> "TooShort", file |-> NoFile]
    ELSE IF ReadBytes(d, OffMagic, 4) # <<52, 71, 75, 80>>
         THEN [res |-> "InvalidMagic", file |-> NoFile]
    ELSE [res |-> "Ok", file |-> resolve(d)]

\* io: FsFile::open or Mmap::map returned an error.
open(d, io) ==
    IF io THEN [res |-> "Io", file |-> NoFile]
    ELSE IF Len(d) < HeaderSize THEN [res |-> "TooShort", file |-> NoFile]
    ELSE IF ReadBytes(d, OffMagic, 4) # LE(MAGIC, 4)
         THEN [res |-> "InvalidMagic", file |-> NoFile]
    ELSE [res |-> "Ok", file |-> resolve(d)]

(***************************************************************************)
(* What a call returns: st is "ok", or how the call ended instead.         *)
(***************************************************************************)
\* arg records the receiver and the arguments of the call.
NoArg == [index |-> 0, length |-> 0, width |-> 0, height |-> 0, data |-> <<>>]
IndexArg(i) == [NoArg EXCEPT !.index = i]
\* out is the caller's buffer after the call, for the call that takes one.
NoRet == [op |-> "none", arg |-> NoArg, st |-> "none", val |-> <<>>,
          n |-> 0, dec |-> "none", out |-> <<>>]
Ret(op, arg, o) == [op |-> op, arg |-> arg, st |-> o.st, val |-> o.val,
                    n |-> 0, dec |-> "none", out |-> <<>>]

\* Outcomes of a read that leaves the mapping: a fault, or whatever bytes
\* happen to be there.
UB == { [st |-> "segv", val |-> <<>>],
        [st |-> "ok", val |-> <<>>],
        [st |-> "ok", val |-> <<0>>] }

Ok(bytes) == { [st |-> "ok", val |-> bytes] }

(***************************************************************************)
(* File::header and the four counts                                        *)
(***************************************************************************)
header(f) == ReadBytes(f.map, f.header, HeaderSize)

node_count(f) == SubSeq(header(f), OffNodeCount + 1, OffNodeCount + 4)
\* string_count reading the count of the bitmap table.
string_count_of_bitmaps(f) ==
    SubSeq(header(f), OffBitmapCount + 1, OffBitmapCount + 4)
string_count(f) == SubSeq(header(f), OffStringCount + 1, OffStringCount + 4)
bitmap_count(f) == SubSeq(header(f), OffBitmapCount + 1, OffBitmapCount + 4)
audio_count(f) == SubSeq(header(f), OffAudioCount + 1, OffAudioCount + 4)

(***************************************************************************)
(* The table lookups of File                                               *)
(***************************************************************************)
\* *table.offset(index): the u64 stored at table + index * 8.
table_entry(f, table, index) ==
    LET p == PtrAdd(table, index * TableStride)
    IN  IF InMap(f.map, p, TableStride)
        THEN Ok(ReadBytes(f.map, p, TableStride)) ELSE UB

\* A length-prefixed record at data + off: the prefix, then that many bytes.
prefixed(f, off, prefix) ==
    LET ptr == PtrAdd(f.data, PtrOf(off))
    IN  IF ~InMap(f.map, ptr, prefix) THEN UB
        ELSE LET size == ReadBytes(f.map, ptr, prefix)
             IN  IF IsSmall(size) /\ InMap(f.map, ptr + prefix, Val(size))
                 THEN Ok(ReadBytes(f.map, ptr + prefix, Val(size)))
                 ELSE UB

\* get_str returning the record from its first byte, prefix included.
get_str_with_prefix(f, index) ==
    LET e == table_entry(f, f.stringtable, index)
    IN  IF e = UB THEN UB
        ELSE prefixed(f, (CHOOSE o \in e : TRUE).val, 0)

get_str(f, index) ==
    LET e == table_entry(f, f.stringtable, index)
    IN  IF e = UB THEN UB
        ELSE prefixed(f, (CHOOSE o \in e : TRUE).val, StrPrefix)

get_node(f, index) ==
    LET p == PtrAdd(f.nodetable, index * NodeSize)
    IN  IF InMap(f.map, p, NodeSize) THEN Ok(ReadBytes(f.map, p, NodeSize)) ELSE UB

root(f) == get_node(f, 0)

get_audio(f, index, length) ==
    LET e == table_entry(f, f.audiotable, index)
    IN  IF e = UB THEN UB
        ELSE LET ptr == PtrAdd(f.data, PtrOf((CHOOSE o \in e : TRUE).val))
             IN  IF InMap(f.map, ptr, length)
                 THEN Ok(ReadBytes(f.map, ptr, length)) ELSE UB

get_bitmap(f, index) ==
    LET e == table_entry(f, f.bitmaptable, index)
    IN  IF e = UB THEN UB
        ELSE prefixed(f, (CHOOSE o \in e : TRUE).val, BitmapPrefix)

(***************************************************************************)
(* Audio                                                                   *)
(***************************************************************************)
NoAudio == [valid |-> FALSE, data |-> <<>>, index |-> 0]

Audio_construct(data, index) == [valid |-> TRUE, data |-> data, index |-> index]

\* data() starting one byte early.
Audio_data_from_81(a) ==
    IF AudioHeaderLen > Len(a.data) THEN [st |-> "panic", val |-> <<>>]
    ELSE [st |-> "ok", val |-> SubSeq(a.data, AudioHeaderLen, Len(a.data))]

\* data() giving an empty payload for a record shorter than the header.
Audio_data_saturating(a) ==
    [st |-> "ok", val |-> SubSeq(a.data, AudioHeaderLen + 1, Len(a.data))]

\* &self.data[82..] panics when 82 > self.data.len().
Audio_data(a) ==
    IF AudioHeaderLen > Len(a.data) THEN [st |-> "panic", val |-> <<>>]
    ELSE [st |-> "ok", val |-> SubSeq(a.data, AudioHeaderLen + 1, Len(a.data))]

Audio_header(a) ==
    IF ~(Len(a.data) >= AudioHeaderLen) THEN [st |-> "panic", val |-> <<>>]
    ELSE [st |-> "ok", val |-> SubSeq(a.data, 1, AudioHeaderLen)]

Audio_index(a) == a.index

AudioArg(a) == [NoArg EXCEPT !.index = a.index, !.length = Len(a.data),
                             !.data = a.data]

(***************************************************************************)
(* u32 arithmetic on little-endian bytes                                   *)
(***************************************************************************)
\* a * k + c for a byte k and a carry c; one byte longer than a.
RECURSIVE MulByte(_, _, _)
MulByte(a, k, c) ==
    IF a = <<>> THEN <<c>>
    ELSE LET t == Head(a) * k + c
         IN  <<t % 256>> \o MulByte(Tail(a), k, t \div 256)

\* a + b + c for equally long a and b; the carry out is dropped.
RECURSIVE AddBytes(_, _, _)
AddBytes(a, b, c) ==
    IF a = <<>> THEN <<>>
    ELSE LET t == Head(a) + Head(b) + c
         IN  <<t % 256>> \o AddBytes(Tail(a), Tail(b), t \div 256)

\* The product of two u16 values, which always fits a u32.
MulU16(w, h) ==
    LET wb == LE(w, 2)
        hb == LE(h, 2)
    IN  AddBytes(MulByte(wb, hb[1], 0) \o <<0>>,
                 <<0>> \o MulByte(wb, hb[2], 0), 0)

(***************************************************************************)
(* lz4::decompress(src, dst): decodes an LZ4 block into dst and reports    *)
(* the number of bytes written, or an error.                               *)
(***************************************************************************)
\* A length nibble of 15 is extended by the following bytes, up to and
\* including the first that is not 255.
RECURSIVE ReadLength(_, _, _)
ReadLength(src, ip, acc) ==
    IF ip > Len(src) THEN [ok |-> FALSE, len |-> acc, ip |-> ip]
    ELSE IF src[ip] = 255 THEN ReadLength(src, ip + 1, acc + 255)
    ELSE [ok |-> TRUE, len |-> acc + src[ip], ip |-> ip + 1]

Length(src, ip, nibble) ==
    IF nibble = 15 THEN ReadLength(src, ip, 15)
    ELSE [ok |-> TRUE, len |-> nibble, ip |-> ip]

\* Copies n bytes from `dist` bytes back in dst, one at a time.
RECURSIVE CopyMatch(_, _, _, _)
CopyMatch(dst, op, dist, n) ==
    IF n = 0 THEN dst
    ELSE CopyMatch([dst EXCEPT ![op + 1] = dst[op + 1 - dist]], op + 1, dist, n - 1)

CopyLiterals(dst, op, src, ip, n) ==
    [i \in 1..Len(dst) |-> IF i > op /\ i <= op + n THEN src[ip + (i - op - 1)]
                           ELSE dst[i]]

DecErr(dst) == [st |-> "err", n |-> 0, out |-> dst]

\* ip: next byte of src to read (1-based); op: bytes of dst written so far.
RECURSIVE Decode(_, _, _, _)
Decode(src, ip, dst, op) ==
    IF ip > Len(src) THEN [st |-> "ok", n |-> op, out |-> dst]
    ELSE
    LET token == src[ip]
        lit == Length(src, ip + 1, token \div 16)
    IN  IF ~lit.ok \/ lit.ip + lit.len - 1 > Len(src) \/ op + lit.len > Len(dst)
        THEN DecErr(dst)
        ELSE
        LET dst1 == CopyLiterals(dst, op, src, lit.ip, lit.len)
            op1 == op + lit.len
            ip1 == lit.ip + lit.len
        IN  IF ip1 > Len(src) THEN [st |-> "ok", n |-> op1, out |-> dst1]
            ELSE IF ip1 + 1 > Len(src) THEN DecErr(dst1)
            ELSE
            LET dist == src[ip1] + 256 * src[ip1 + 1]
                mat == Length(src, ip1 + 2, token % 16)
            IN  IF dist = 0 \/ dist > op1 \/ ~mat.ok
                   \/ op1 + mat.len + 4 > Len(dst)
                THEN DecErr(dst1)
                ELSE Decode(src, mat.ip,
                            CopyMatch(dst1, op1, dist, mat.len + 4),
                            op1 + mat.len + 4)

decompress(src, dst) == Decode(src, 1, dst, 0)

(***************************************************************************)
(* Bitmap                                                                  *)
(***************************************************************************)
NoBitmap == [valid |-> FALSE, width |-> 0, height |-> 0, data |-> <<>>]

Bitmap_construct(data, width, height) ==
    [valid |-> TRUE, width |-> width, height |-> height, data |-> data]

Bitmap_width(b) == b.width
Bitmap_height(b) == b.height
Bitmap_raw_data(b) == b.data

\* width as u32 * height as u32 * 4, in five bytes: the exact product.
Product(b) == MulByte(MulU16(b.width, b.height), PixelBytes, 0)

\* The u32 product wraps when overflow checks are off and panics when they
\* are on.
Bitmap_len(b) ==
    IF Product(b)[5] = 0 THEN { [st |-> "ok", val |-> SubSeq(Product(b), 1, 4)] }
    ELSE { [st |-> "ok", val |-> SubSeq(Product(b), 1, 4)],
           [st |-> "panic", val |-> <<>>] }

BitmapArg(b) == [NoArg EXCEPT !.width = b.width, !.height = b.height,
                              !.data = b.data]

\* data(out) without the check of out's length before decompressing.
Bitmap_data_unchecked(b, o, l) ==
    IF l.st # "ok"
    THEN [st |-> "panic", dec |-> "none", n |-> 0, out |-> o]
    ELSE LET d == decompress(b.data, o)
         IN  IF d.st = "ok" /\ LE(d.n, 4) = l.val
             THEN [st |-> "ok", dec |-> d.st, n |-> d.n, out |-> d.out]
             ELSE [st |-> "panic", dec |-> d.st, n |-> d.n, out |-> d.out]

\* data(out) refusing an empty buffer.
Bitmap_data_nonempty(b, o, l) ==
    IF l.st # "ok" \/ LE(Len(o), 4) # l.val \/ Len(o) = 0
    THEN [st |-> "panic", dec |-> "none", n |-> 0, out |-> o]
    ELSE LET d == decompress(b.data, o)
         IN  IF d.st = "ok" /\ LE(d.n, 4) = l.val
             THEN [st |-> "ok", dec |-> d.st, n |-> d.n, out |-> d.out]
             ELSE [st |-> "panic", dec |-> d.st, n |-> d.n, out |-> d.out]

\* data(out) for one outcome l of self.len(): the result and the buffer.
Bitmap_data(b, o, l) ==
    IF l.st # "ok"
    THEN [st |-> "panic", dec |-> "none", n |-> 0, out |-> o]
    ELSE IF LE(Len(o), 4) # l.val
    THEN [st |-> "panic", dec |-> "none", n |-> 0, out |-> o]
    ELSE LET d == decompress(b.data, o)
         IN  IF d.st = "ok" /\ LE(d.n, 4) = l.val
             THEN [st |-> "ok", dec |-> d.st, n |-> d.n, out |-> d.out]
             ELSE [st |-> "panic", dec |-> d.st, n |-> d.n, out |-> d.out]

(***************************************************************************)
(* Inputs of the calls.                                                    *)
(***************************************************************************)
Indices == 0..MaxIndex
AudioLens == {0, AudioHeaderLen - 1, AudioHeaderLen, AudioHeaderLen + 1,
              AudioRecLen, AudioRecLen + 1}
Dims == (0..MaxDim) \cup {32768, 65535}
OutLens == 0..MaxOut
\* A buffer of the caller, filled with AA.
Buffer(n) == [i \in 1..n |-> 170]

Threads == 1..MaxThreads
Idle == [pc |-> "idle", op |-> "none", index |-> 0, length |-> 0,
         off |-> <<>>, size |-> <<>>, st |-> "none", val |-> <<>>]

(***************************************************************************)
(* Initial state: a file on disk, nothing opened.                          *)
(***************************************************************************)
Init ==
    /\ disk \in Files
    /\ res = "none"
    /\ file = NoFile
    /\ ret = NoRet
    /\ audio = NoAudio
    /\ bitmap = NoBitmap
    /\ thr = [t \in Threads |-> Idle]

\* A fault ends the process.
Running == ret.st # "segv"

Open ==
    /\ res = "none"
    /\ \E io \in BOOLEAN :
         /\ res' = open(disk, io).res
         /\ file' = open(disk, io).file
    /\ UNCHANGED <<disk, ret, audio, bitmap, thr>>

Call(op, arg, outcomes) ==
    /\ file.open /\ Running
    /\ \E o \in outcomes : ret' = Ret(op, arg, o)
    /\ UNCHANGED <<disk, res, file, audio, bitmap, thr>>

NodeCount == Call("node_count", NoArg, Ok(node_count(file)))
StringCount == Call("string_count", NoArg, Ok(string_count(file)))
BitmapCount == Call("bitmap_count", NoArg, Ok(bitmap_count(file)))
AudioCount == Call("audio_count", NoArg, Ok(audio_count(file)))
Root == Call("root", NoArg, root(file))
GetNode == \E i \in Indices : Call("get_node", IndexArg(i), get_node(file, i))
GetStr == \E i \in Indices : Call("get_str", IndexArg(i), get_str(file, i))

GetAudio ==
    \E i \in Indices, l \in AudioLens :
        Call("get_audio", [IndexArg(i) EXCEPT !.length = l], get_audio(file, i, l))

GetBitmap == \E i \in Indices : Call("get_bitmap", IndexArg(i), get_bitmap(file, i))

\* get_audio, and Audio::construct over the slice it returned.
NewAudio ==
    /\ file.open /\ Running
    /\ \E i \in Indices, l \in AudioLens :
         \E o \in get_audio(file, i, l) :
            /\ ret' = Ret("get_audio", [IndexArg(i) EXCEPT !.length = l], o)
            /\ audio' = IF o.st = "ok" THEN Audio_construct(o.val, i) ELSE audio
    /\ UNCHANGED <<disk, res, file, bitmap, thr>>

\* get_bitmap, and Bitmap::construct over the slice it returned.
NewBitmap ==
    /\ file.open /\ Running
    /\ \E i \in Indices, w \in Dims, h \in Dims :
         \E o \in get_bitmap(file, i) :
            /\ ret' = Ret("get_bitmap",
                          [IndexArg(i) EXCEPT !.width = w, !.height = h], o)
            /\ bitmap' = IF o.st = "ok" THEN Bitmap_construct(o.val, w, h)
                         ELSE bitmap
    /\ UNCHANGED <<disk, res, file, audio, thr>>

AudioCall(op, o) ==
    /\ audio.valid /\ Running
    /\ ret' = Ret(op, AudioArg(audio), o)
    /\ UNCHANGED <<disk, res, file, audio, bitmap, thr>>

AudioHeader == AudioCall("Audio.header", Audio_header(audio))
AudioData == AudioCall("Audio.data", Audio_data(audio))
AudioIndex ==
    /\ audio.valid /\ Running
    /\ ret' = [Ret("Audio.index", AudioArg(audio), [st |-> "ok", val |-> <<>>])
                 EXCEPT !.n = Audio_index(audio)]
    /\ UNCHANGED <<disk, res, file, audio, bitmap, thr>>

BitmapCall(op, outcomes) ==
    /\ bitmap.valid /\ Running
    /\ \E o \in outcomes : ret' = Ret(op, BitmapArg(bitmap), o)
    /\ UNCHANGED <<disk, res, file, audio, bitmap, thr>>

BitmapWidth == BitmapCall("Bitmap.width", Ok(LE(Bitmap_width(bitmap), 2)))
BitmapHeight == BitmapCall("Bitmap.height", Ok(LE(Bitmap_height(bitmap), 2)))
BitmapRawData == BitmapCall("Bitmap.raw_data", Ok(Bitmap_raw_data(bitmap)))
BitmapLen == BitmapCall("Bitmap.len", Bitmap_len(bitmap))

\* data(out) on a buffer of the caller, of any length up to MaxOut.
BitmapData ==
    /\ bitmap.valid /\ Running
    /\ \E k \in OutLens, l \in Bitmap_len(bitmap) :
         LET r == Bitmap_data(bitmap, Buffer(k), l)
         IN  /\ ret' = [op |-> "Bitmap.data",
                        arg |-> [BitmapArg(bitmap) EXCEPT !.length = k],
                        st |-> r.st, val |-> l.val, n |-> r.n, dec |-> r.dec,
                        out |-> r.out]
    /\ UNCHANGED <<disk, res, file, audio, bitmap, thr>>

\* The Container and its accessors.
Next ==
    \/ Open
    \/ NodeCount \/ StringCount \/ BitmapCount \/ AudioCount
    \/ Root \/ GetNode \/ GetStr \/ GetAudio \/ GetBitmap

Spec == Init /\ [][Next]_vars

\* Audio views over the slices of get_audio.
NextAudio == Open \/ NewAudio \/ AudioHeader \/ AudioData \/ AudioIndex

SpecAudio == Init /\ [][NextAudio]_vars

\* Bitmap views over the slices of get_bitmap.
NextBitmap ==
    \/ Open \/ NewBitmap
    \/ BitmapWidth \/ BitmapHeight \/ BitmapRawData \/ BitmapLen \/ BitmapData

SpecBitmap == Init /\ [][NextBitmap]_vars

(***************************************************************************)
(* Concurrent readers of one File (File is Send and Sync).  A call of a    *)
(* thread is the sequence of its reads of the shared mapping: the table    *)
(* entry, the length prefix, the bytes of the slice.                       *)
(***************************************************************************)
Alive == \A t \in Threads : thr[t].st # "segv"

Count(c) == IF IsSmall(c) THEN Val(c) ELSE MaxIndex + 1

\* The calls with an index below the count of their table.
ValidCalls ==
    { [op |-> "get_str", index |-> i, length |-> 0] :
        i \in { j \in Indices : j < Count(string_count(file)) } }
    \cup { [op |-> "get_bitmap", index |-> i, length |-> 0] :
        i \in { j \in Indices : j < Count(bitmap_count(file)) } }
    \cup { [op |-> "get_audio", index |-> i, length |-> l] :
        i \in { j \in Indices : j < Count(audio_count(file)) }, l \in AudioLens }

TableOf(f, op) ==
    CASE op = "get_str" -> f.stringtable
      [] op = "get_bitmap" -> f.bitmaptable
      [] OTHER -> f.audiotable

PrefixOf(op) == IF op = "get_str" THEN StrPrefix ELSE BitmapPrefix

Done(t, o) == thr' = [thr EXCEPT ![t].pc = "done", ![t].st = o.st, ![t].val = o.val]

ThrStart(t) ==
    /\ file.open /\ Alive
    /\ thr[t].pc = "idle"
    /\ \E c \in ValidCalls :
         thr' = [thr EXCEPT ![t] = [Idle EXCEPT !.pc = "entry", !.op = c.op,
                                                !.index = c.index,
                                                !.length = c.length]]
    /\ UNCHANGED <<disk, res, file, ret, audio, bitmap>>

\* let off = *self.<table>.offset(index as isize);
ThrEntry(t) ==
    /\ Alive
    /\ thr[t].pc = "entry"
    /\ LET e == table_entry(file, TableOf(file, thr[t].op), thr[t].index)
       IN  \E o \in e :
             IF e = UB THEN Done(t, o)
             ELSE thr' = [thr EXCEPT ![t].off = o.val,
                                     ![t].pc = IF thr[t].op = "get_audio"
                                               THEN "slice" ELSE "prefix"]
    /\ UNCHANGED <<disk, res, file, ret, audio, bitmap>>

\* The prefix read keeping its pointer in the File, as a cursor.
ThrPrefix_cursor(t) ==
    /\ Alive
    /\ thr[t].pc = "prefix"
    /\ LET ptr == PtrAdd(file.data, PtrOf(thr[t].off))
           k == PrefixOf(thr[t].op)
       IN  IF InMap(file.map, ptr, k)
           THEN /\ thr' = [thr EXCEPT ![t].size = ReadBytes(file.map, ptr, k),
                                      ![t].pc = "slice"]
                /\ file' = [file EXCEPT !.data = ptr]
           ELSE /\ \E o \in UB : Done(t, o)
                /\ file' = file
    /\ UNCHANGED <<disk, res, ret, audio, bitmap>>

\* let ptr = self.data.offset(off as isize); the length prefix at ptr.
ThrPrefix(t) ==
    /\ Alive
    /\ thr[t].pc = "prefix"
    /\ LET ptr == PtrAdd(file.data, PtrOf(thr[t].off))
           k == PrefixOf(thr[t].op)
       IN  IF InMap(file.map, ptr, k)
           THEN thr' = [thr EXCEPT ![t].size = ReadBytes(file.map, ptr, k),
                                   ![t].pc = "slice"]
           ELSE \E o \in UB : Done(t, o)
    /\ UNCHANGED <<disk, res, file, ret, audio, bitmap>>

\* from_raw_parts(..): the bytes of the slice.
ThrSlice(t) ==
    /\ Alive
    /\ thr[t].pc = "slice"
    /\ LET ptr == PtrAdd(file.data, PtrOf(thr[t].off))
           from == IF thr[t].op = "get_audio" THEN ptr
                   ELSE PtrAdd(ptr, PrefixOf(thr[t].op))
           big == thr[t].op # "get_audio" /\ ~IsSmall(thr[t].size)
           n == IF thr[t].op = "get_audio" THEN thr[t].length
                ELSE Val(thr[t].size)
       IN  IF ~big /\ InMap(file.map, from, n)
           THEN Done(t, [st |-> "ok", val |-> ReadBytes(file.map, from, n)])
           ELSE \E o \in UB : Done(t, o)
    /\ UNCHANGED <<disk, res, file, ret, audio, bitmap>>

ThrReturn(t) ==
    /\ Alive
    /\ thr[t].pc = "done"
    /\ thr' = [thr EXCEPT ![t] = Idle]
    /\ UNCHANGED <<disk, res, file, ret, audio, bitmap>>

NextConc ==
    \/ Open
    \/ \E t \in Threads :
         ThrStart(t) \/ ThrEntry(t) \/ ThrPrefix(t) \/ ThrSlice(t) \/ ThrReturn(t)

SpecConc == Init /\ [][NextConc]_vars

\* What the same call returns when nothing else runs.
Sequential(f, op, index, length) ==
    CASE op = "get_str" -> get_str(f, index)
      [] op = "get_bitmap" -> get_bitmap(f, index)
      [] OTHER -> get_audio(f, index, length)

(***************************************************************************)
(* Properties.                                                             *)
(***************************************************************************)
Opened == res \notin {"none", "Io"}

\* C1: a file that was mapped and is shorter than the Header fails to open
\* with TooShort, whatever its bytes are: never InvalidMagic, never a File.
C1_TooShort ==
    (Opened /\ Len(disk) < 52) => (res = "TooShort" /\ ~file.open)

\* A short file whose first four bytes are readable and are not the magic.
C1_Witness ==
    /\ res = "TooShort"
    /\ Len(disk) >= 4 /\ Len(disk) < 52
    /\ SubSeq(disk, 1, 4) # <<80, 75, 71, 52>>

\* C2: a mapped file of at least the Header's size fails with InvalidMagic
\* exactly when its first four bytes are not 50 4B 47 34 (0x34474B50), and
\* then no File is returned, whatever the rest of the header holds.
C2_InvalidMagic ==
    (Opened /\ Len(disk) >= 52) =>
        /\ (res = "InvalidMagic") <=> (SubSeq(disk, 1, 4) # <<80, 75, 71, 52>>)
        /\ (SubSeq(disk, 1, 4) # <<80, 75, 71, 52>>) => ~file.open

\* A full-length file with the magic bytes in the opposite order and table
\* offsets outside the file.
C2_Witness ==
    /\ res = "InvalidMagic"
    /\ disk = BadOffsets(<<52, 71, 75, 80>>)

\* C3: with the right magic and at least the Header's size, open returns a
\* File without looking at the table offsets; the four count accessors
\* return the raw count fields of the header; and no call changes the File
\* or the bytes it maps.
C3_Counts ==
    /\ [](/\ (Opened /\ Len(disk) >= 52 /\ SubSeq(disk, 1, 4) = <<80, 75, 71, 52>>)
               => (res = "Ok" /\ file.open /\ file.map = disk)
          /\ ret.op = "node_count" => (ret.st = "ok" /\ ret.val = SubSeq(disk, 5, 8))
          /\ ret.op = "string_count" => (ret.st = "ok" /\ ret.val = SubSeq(disk, 17, 20))
          /\ ret.op = "bitmap_count" => (ret.st = "ok" /\ ret.val = SubSeq(disk, 29, 32))
          /\ ret.op = "audio_count" => (ret.st = "ok" /\ ret.val = SubSeq(disk, 41, 44)))
    /\ [][file.open => (file' = file /\ disk' = disk)]_vars

\* A File opened over table offsets that lie outside the file, asked for its
\* string count after another accessor has run.
C3_Witness ==
    /\ file.open
    /\ disk = BadOffsets(<<80, 75, 71, 52>>)
    /\ ret.op = "string_count" /\ ret.val = <<2, 0, 0, 0>>

\* C4: in the well-formed file, for an index below stringcount, get_str
\* returns the bytes that follow the 2-byte length prefix of the record
\* whose offset is the index-th 8-byte entry of the string table: exactly
\* `length` bytes, prefix excluded.  The record (5, "hello") gives "hello".
C4_GetStr ==
    (ret.op = "get_str" /\ disk = WellFormed(<<80, 75, 71, 52>>)
       /\ ret.arg.index < disk[17]) =>
        LET base == disk[21] + 256 * disk[22]
            at == base + 8 * ret.arg.index
            off == disk[at + 1] + 256 * disk[at + 2]
            length == disk[off + 1] + 256 * disk[off + 2]
        IN  /\ ret.st = "ok"
            /\ Len(ret.val) = length
            /\ ret.val = SubSeq(disk, off + 3, off + 2 + length)
            /\ ret.arg.index = 0 => ret.val = <<104, 101, 108, 108, 111>>

C4_Witness ==
    /\ ret.op = "get_str" /\ ret.arg.index = 0
    /\ disk = WellFormed(<<80, 75, 71, 52>>)
    /\ ret.val = <<104, 101, 108, 108, 111>>

\* C5: get_audio(index, L) inside the mapping yields the L bytes at the
\* offset stored in the audio table, and the Audio built over them keeps
\* the index; for L >= 82, header() is bytes [0, 82) and data() is bytes
\* [82, L), L - 82 bytes, so that header() followed by data() is the view.
C5_AudioSplit ==
    /\ (ret.op = "get_audio" /\ disk = WellFormed(<<80, 75, 71, 52>>)
          /\ ret.arg.index < disk[41] /\ ret.arg.length <= AudioRecLen) =>
         LET at == disk[45] + 256 * disk[46] + 8 * ret.arg.index
             off == disk[at + 1] + 256 * disk[at + 2]
         IN  /\ ret.st = "ok"
             /\ ret.val = SubSeq(disk, off + 1, off + ret.arg.length)
             /\ audio = [valid |-> TRUE, data |-> ret.val, index |-> ret.arg.index]
    /\ (ret.op = "Audio.header" /\ ret.arg.length >= 82) =>
         /\ ret.st = "ok"
         /\ ret.val = SubSeq(ret.arg.data, 1, 82)
    /\ (ret.op = "Audio.data" /\ ret.arg.length >= 82) =>
         /\ ret.st = "ok"
         /\ Len(ret.val) = ret.arg.length - 82
         /\ SubSeq(ret.arg.data, 1, 82) \o ret.val = ret.arg.data
    /\ ret.op = "Audio.index" => (ret.st = "ok" /\ ret.n = ret.arg.index)

\* data() on the whole audio record of the file.
C5_Witness ==
    /\ ret.op = "Audio.data" /\ ret.st = "ok"
    /\ ret.arg.length = AudioRecLen
    /\ Len(ret.val) = AudioRecLen - 82
    /\ ret.val = SubSeq(AudioBytes, 83, AudioRecLen)

\* C6: data(out) panics when out's length is not len(), before the
\* decompressor runs and with out untouched; when the lengths agree it
\* returns normally exactly when the decompressor reports len() bytes, and
\* panics otherwise.  For 2 x 2, len() is 16 and a 15-byte buffer is refused.
C6_DataContract ==
    (ret.op = "Bitmap.data" /\ ret.val # <<>>) =>
        /\ ret.val \in { l.val : l \in Bitmap_len(ret.arg) }
        /\ (ret.arg.width = 2 /\ ret.arg.height = 2) => ret.val = <<16, 0, 0, 0>>
        /\ LE(ret.arg.length, 4) # ret.val =>
             /\ ret.st = "panic"
             /\ ret.dec = "none"
             /\ ret.out = [i \in 1..ret.arg.length |-> 170]
        /\ LE(ret.arg.length, 4) = ret.val =>
             /\ ret.dec \in {"ok", "err"}
             /\ ret.st \in {"ok", "panic"}
             /\ ret.st = "ok" <=> (ret.dec = "ok" /\ LE(ret.n, 4) = ret.val)

\* A 2 x 2 bitmap over the 16-byte block, given 15 bytes.
C6_Witness ==
    /\ ret.op = "Bitmap.data"
    /\ ret.arg.width = 2 /\ ret.arg.height = 2 /\ ret.arg.length = 15
    /\ ret.arg.data = Lz4Block16
    /\ ret.st = "panic" /\ ret.dec = "none"

C8_Concurrent ==
    /\ [](\A t \in Threads :
            thr[t].pc = "done" =>
              [st |-> thr[t].st, val |-> thr[t].val]
                 \in Sequential(file, thr[t].op, thr[t].index, thr[t].length))
    /\ [][file.open => (file' = file /\ disk' = disk)]_vars

\* Two calls on the same string index, one finished while the other is
\* between its reads.
C8_Witness ==
    /\ disk = WellFormed(<<80, 75, 71, 52>>)
    /\ thr[1].pc = "done" /\ thr[1].op = "get_str" /\ thr[1].index = 0
    /\ thr[1].val = <<104, 101, 108, 108, 111>>
    /\ thr[2].pc = "slice" /\ thr[2].op = "get_str" /\ thr[2].index = 0

\* C9: for all u16 width and height, len() returns width * height * 4.
C9_LenIsProduct ==
    ret.op = "Bitmap.len" =>
        (ret.st = "ok" /\ ret.val \o <<0>> = Product(ret.arg))

\* C10: on an Audio view of fewer than 82 bytes header() and data() both
\* panic; neither returns a slice.
C10_ShortAudio ==
    (ret.op \in {"Audio.header", "Audio.data"} /\ ret.arg.length < 82) =>
        (ret.st = "panic" /\ ret.val = <<>>)

\* data() on a view of 81 bytes.
C10_Witness ==
    /\ ret.op = "Audio.data" /\ ret.arg.length = 81
    /\ Len(ret.arg.data) = 81
    /\ ret.st = "panic"

====
